---- MODULE Spec2Model ----
(***************************************************************************)
(* The persistent cloud relay (src/persistent_cloud_relay.py) and the      *)
(* persistent laptop client (src/persistent_laptop_client.py) as one state *)
(* machine: the relay's three global tables, its two files on disk, one    *)
(* handler task per websocket connection, and the host client's loop.      *)
(***************************************************************************)
EXTENDS Integers, Sequences, FiniteSets, TLC

\* ---------------------------------------------------------------- bounds
NumConns == 2     \* websocket connections that can be open at one time
MaxClock == 2     \* datetime.now() takes the values 0..MaxClock
MaxInbox == 2     \* messages the host client has received and not yet handled
MaxOut   == 1     \* messages the host client has sent and the relay not yet read
MaxBoots == 1     \* restarts of the relay process

\* ---------------------------------------------------------------- values
None   == "None"        \* Python's None
Absent == "<absent>"    \* a key the JSON object does not have
NoConn == 0             \* no websocket

Conns     == 1..NumConns
DeviceIds == {"host_1", "mob_1"}
Codes     == {"482913", "000000"}   \* the codes a companion offers
BadCodes  == {"4829", "48291x"}     \* offered codes that are not six digits
HostCodes == {"482913"}             \* the codes random.randint(100000, 999999) gives the host
HostId    == "host_1"               \* the device_id in laptop_device.json
HostName  == "A"                    \* "Laptop (<hostname>)"
CodeWindow == 1                     \* "Code expires in 10 minutes": the ten minutes, in steps of the clock
Flags     == {"true", "false"}      \* JSON true / false

\* data.get(key, default): the default only when the key is missing
Get(v, default) == IF v = Absent THEN default ELSE v

\* Python truthiness of the values a request field takes here
Truthy(v) == v \notin {None, Absent, "false", ""}

VARIABLES
    devices,          \* dict device_id -> websocket, in insertion order
    device_info,      \* dict device_id -> info
    paired_devices,   \* set of (device1, device2) tuples
    devices_file,     \* content of devices.json
    pairings_file,    \* content of pairings.json
    connState,        \* per connection: "closed", "open", "lost" (transport gone, handler not yet in finally)
    connDev,          \* per connection: handle_client's local device_id
    clock,            \* datetime.now()
    boots,            \* how many times the relay process has been started again
    last,             \* the request the relay (or the host) handled in the last step
    sent,             \* the websocket writes that succeeded in the last step, in order
    host_pc,          \* PersistentLaptopClient.start: where the loop stands
    host_ws,          \* self.websocket
    host_pairing_code,\* self.pairing_code
    host_paired,      \* self.paired_devices, as a bag (entry -> number of times in the list)
    hostInbox,        \* frames the relay wrote to the host's websocket, not yet handled
    hostOut,          \* frames the host wrote to its websocket, not yet read by the relay
    issued,           \* of self.pairing_code: when it was generated, whether an offer was accepted under it
    device_file,      \* content of laptop_device.json
    host_device_id,   \* self.device_id
    scan              \* the pair_request handler suspended in its scan of devices, if any

relayVars == <<devices, device_info, paired_devices, devices_file, pairings_file, scan>>
connVars  == <<connState, connDev>>
identityVars == <<device_file, host_device_id>>
hostVars  == <<host_pc, host_ws, host_pairing_code, host_paired, hostOut, issued,
               device_file, host_device_id>>
vars == <<devices, device_info, paired_devices, devices_file, pairings_file,
          connState, connDev, clock, boots, last, sent,
          host_pc, host_ws, host_pairing_code, host_paired, hostInbox, hostOut, issued,
          device_file, host_device_id, scan>>

\* ---------------------------------------------------------------- dict helpers
EmptyDict == [k \in {} |-> None]

\* the keys of the devices dict
Keys(d) == {d[i].id : i \in DOMAIN d}

\* devices[k]
DictGet(d, k) == d[CHOOSE i \in DOMAIN d : d[i].id = k].ws

\* devices[k] = v : a known key keeps its place, a new key goes last
DictSet(d, k, v) ==
    IF k \in Keys(d)
    THEN [i \in DOMAIN d |-> IF d[i].id = k THEN [id |-> k, ws |-> v] ELSE d[i]]
    ELSE Append(d, [id |-> k, ws |-> v])

\* del devices[k]
DictDel(d, k) == SelectSeq(d, LAMBDA e : e.id # k)

\* ---------------------------------------------------------------- persistence
\* json.dump turns a None key of a dict into the string "null"
JsonKey(k) == IF k = None THEN "null" ELSE k

ToJsonDevices(info) ==
    [j \in {JsonKey(k) : k \in DOMAIN info} |->
        info[CHOOSE k \in DOMAIN info : JsonKey(k) = j]]

\* [list(pair) for pair in paired_devices], read back as set(tuple(pair)...)
ToJsonPairings(pd) == pd

IoOutcomes == {"ok", "fail_devices", "fail_pairings"}

\* save_persistent_data: both files, or an exception (caught and logged) at
\* the first or the second open()
SavedDevices(io, info) == IF io = "fail_devices" THEN devices_file ELSE ToJsonDevices(info)

SavedPairings(io, pd) == IF io = "ok" THEN ToJsonPairings(pd) ELSE pairings_file

\* a save that writes neither file
save_persistent_data_Skipped(io, info, pd) == UNCHANGED <<devices_file, pairings_file>>

save_persistent_data(io, info, pd) ==
    /\ devices_file' = SavedDevices(io, info)
    /\ pairings_file' = SavedPairings(io, pd)

\* a file cut short: opened with 'w' (which empties it) and not, or not wholly,
\* written. json.load raises on it.
TornDevices == [k \in {"<torn>"} |-> None]

TornPairings == {<<"<torn>">>}

\* load_persistent_data: the file's content, or the empty table when the file
\* does not exist (an empty content here) or json.load raised
LoadedDevices(file) == IF file = TornDevices THEN EmptyDict ELSE file

\* a start that reads no pairing back
LoadedPairings_Forgets(file) == {}

\* set(tuple(pair) for pair in pairing_list); a JSON null reads back as None
LoadedPairings(file) == IF file = TornPairings THEN {} ELSE file

\* ---------------------------------------------------------------- websocket writes
\* ws.send raises ConnectionClosed unless the transport is open
CanSend(to) == to \in Conns /\ connState[to] = "open"

Frame(to, msg) == [to |-> to, msg |-> msg]

RECURSIVE SendUntilFail(_)
\* a run of awaits ws.send(...) with no try around each: the first one that
\* raises ends the handler, the later ones never happen
SendUntilFail(frames) ==
    IF frames = <<>> THEN <<>>
    ELSE IF CanSend(Head(frames).to)
         THEN <<Head(frames)>> \o SendUntilFail(Tail(frames))
         ELSE <<>>

\* what the host client's websocket receives of these writes
ToHost(frames) ==
    LET mine == SelectSeq(frames, LAMBDA f : f.to = host_ws)
    IN  [i \in DOMAIN mine |-> mine[i].msg]

\* the effect of a handler's writes
Emit(frames) ==
    LET ok == SendUntilFail(frames)
    IN  /\ sent' = ok
        /\ hostInbox' = hostInbox \o ToHost(ok)
        /\ Len(hostInbox') <= MaxInbox

Handled(c, m) == last' = [op |-> m.type, conn |-> c, dev |-> connDev[c], req |-> m]

\* the same for a request whose handler called save_persistent_data, with how
\* the write went
HandledSave(c, m, io) ==
    last' = [op |-> m.type, conn |-> c, dev |-> connDev[c], req |-> m, io |-> io]

\* ---------------------------------------------------------------- register
\* generate_device_fingerprint: sha256 of "id:name", here the pair itself
generate_device_fingerprint(id, name) == <<id, name>>

\* device_id[:8], target_id[:8] in a log line: a TypeError on None
Sliceable(v) == v # None

\* pair[1] if pair[0] == device_id else pair[0]
PeerOf(pair, id) == IF pair[1] = id THEN pair[2] ELSE pair[1]

\* the pairs with "device_id in pair"
PairsOf(id, pd) == {p \in pd : p[1] = id \/ p[2] = id}

PairingEntry(peer, info) ==
    [peer_device_id |-> peer,
     peer_device_name |-> info[peer].device_name,
     peer_device_type |-> info[peer].device_type]

\* my_pairings: one entry per pair of the device whose peer is in device_info;
\* the list's order is the set's iteration order, so it is kept as a bag
\* (entry -> number of times it is in the list)
MyPairings(id, pd, info) ==
    LET mine == {p \in PairsOf(id, pd) : PeerOf(p, id) \in DOMAIN info}
    IN  [e \in {PairingEntry(PeerOf(p, id), info) : p \in mine} |->
            Cardinality({p \in mine : PeerOf(p, id) = e.peer_device_id})]

\* no handler is suspended in the scan of devices
NoScan == [conn |-> NoConn]

\* the dict iterator of a suspended scan ("for laptop_id, laptop_ws in
\* devices.items()") after devices[id] = websocket: a new key is a new entry
\* behind the iterator, a known key keeps its place
ScanAfterSet(s, d, id) ==
    IF s = NoScan \/ id \in Keys(d) THEN s ELSE [s EXCEPT !.rest = Append(@, id)]

\* and after del devices[id]: the entry is gone from what is left to visit
ScanAfterDel(s, id) ==
    IF s = NoScan THEN s ELSE [s EXCEPT !.rest = SelectSeq(@, LAMBDA x : x # id)]

\* a register that leaves the record of a known device as it was
RegisteredInfo_StaleLastSeen(info, id, dtype, name, now) ==
    IF id \in DOMAIN info
    THEN info
    ELSE info @@ (id :> [device_type |-> dtype,
                         device_name |-> name,
                         fingerprint |-> generate_device_fingerprint(id, name),
                         first_seen  |-> now,
                         last_seen   |-> now])

\* the directory after a register: a new record, or last_seen alone
RegisteredInfo(info, id, dtype, name, now) ==
    IF id \in DOMAIN info
    THEN [info EXCEPT ![id].last_seen = now]
    ELSE info @@ (id :> [device_type |-> dtype,
                         device_name |-> name,
                         fingerprint |-> generate_device_fingerprint(id, name),
                         first_seen  |-> now,
                         last_seen   |-> now])

RegisterFrames(c, id, dtype, is_known, pairings) ==
    IF ~Sliceable(id) THEN <<>>      \* the log line before the first send raised
    ELSE <<Frame(c, [type |-> "registered", device_id |-> id,
                     is_known_device |-> is_known, device_type |-> dtype])>>
         \o (IF DOMAIN pairings # {}
             THEN <<Frame(c, [type |-> "existing_pairings", pairings |-> pairings])>>
             ELSE <<>>)

OnRegister(c, m, io) ==
    LET id    == Get(m.device_id, None)
        dtype == Get(m.device_type, None)
        name  == Get(m.device_name, "Unknown")
        info1 == RegisteredInfo(device_info, id, dtype, name, clock)
    IN  /\ m.type = "register"
        /\ connDev' = [connDev EXCEPT ![c] = id]
        /\ devices' = DictSet(devices, id, c)
        /\ scan' = ScanAfterSet(scan, devices, id)
        /\ device_info' = info1
        /\ save_persistent_data(io, info1, paired_devices)
        /\ Emit(RegisterFrames(c, id, dtype, id \in DOMAIN device_info,
                               MyPairings(id, paired_devices, info1)))
        /\ HandledSave(c, m, io)
        /\ UNCHANGED <<paired_devices, connState, clock, boots>>

\* ---------------------------------------------------------------- pair_request
\* a scan that takes every registered device for a laptop
LaptopSlots_AnyDevice(d, info) == d

\* the laptops the scan tries, in dict order
LaptopSlots(d, info) ==
    SelectSeq(d, LAMBDA e : e.id \in DOMAIN info /\ info[e.id].device_type = "laptop")

\* a scan that stops at the first laptop, whether its send raises or not
FirstReachable_FirstOnly(slots) == IF slots = <<>> THEN NoConn ELSE Head(slots).ws

\* the first laptop whose send does not raise (each send is in its own try)
FirstReachable(slots) ==
    LET live == SelectSeq(slots, LAMBDA e : CanSend(e.ws))
    IN  IF live = <<>> THEN NoConn ELSE Head(live).ws

PairRequestFrames(c, dev, code, name) ==
    LET to == FirstReachable(LaptopSlots(devices, device_info))
    IN  IF to # NoConn
        THEN <<Frame(to, [type |-> "pair_request", from_device_id |-> dev,
                          pairing_code |-> code, device_name |-> name])>>
        ELSE <<Frame(c, [type |-> "pairing_failed", message |-> "No laptops available"])>>

OnPairRequest(c, m) ==
    /\ m.type = "pair_request"
    /\ Emit(PairRequestFrames(c, connDev[c], Get(m.pairing_code, None),
                              Get(m.device_name, "Mobile")))
    /\ Handled(c, m)
    /\ UNCHANGED <<relayVars, connVars, clock, boots>>

\* ---------------------------------------------------------------- pair_response
\* a pairing stored under the target's name only
AddPair_TargetOnly(pd, a, b) == pd \cup {<<b, b>>}

\* paired_devices.add((device_id, target_id))
AddPair(pd, a, b) == pd \cup {<<a, b>>}

\* a response taken for an acceptance whenever it carries the key
Accepted_KeyPresent(m) == m.accepted # Absent

\* accepted = data.get('accepted', False), then "if accepted"
Accepted(m) == Truthy(Get(m.accepted, "false"))

\* the two "paired" notifications; each device_info[...] lookup is evaluated
\* just before its send, and a KeyError there ends the handler
PairedFrames(c, dev, target, message) ==
    IF target \notin DOMAIN device_info THEN <<>>
    ELSE <<Frame(c, [type |-> "paired", peer_device_id |-> target,
                     peer_device_name |-> device_info[target].device_name,
                     is_persistent |-> "true", message |-> message])>>
         \o (IF dev \notin DOMAIN device_info THEN <<>>
             ELSE <<Frame(DictGet(devices, target),
                          [type |-> "paired", peer_device_id |-> dev,
                           peer_device_name |-> device_info[dev].device_name,
                           is_persistent |-> "true",
                           message |-> "Successfully paired with laptop (persistent)"])>>)

RejectedFrames(target, message) ==
    <<Frame(DictGet(devices, target), [type |-> "pairing_failed", message |-> message])>>

OnPairResponse(c, m, io) ==
    LET dev      == connDev[c]
        target   == Get(m.target_device_id, None)
        accepted == Accepted(m)
        message  == Get(m.message, "")
    IN  /\ m.type = "pair_response"
        /\ IF target \in Keys(devices)
           THEN IF accepted
                THEN /\ paired_devices' = AddPair(paired_devices, dev, target)
                     /\ save_persistent_data(io, device_info, paired_devices')
                     /\ Emit(PairedFrames(c, dev, target, message))
                ELSE /\ Emit(RejectedFrames(target, message))
                     /\ UNCHANGED <<paired_devices, devices_file, pairings_file>>
           ELSE /\ Emit(<<>>)
                /\ UNCHANGED <<paired_devices, devices_file, pairings_file>>
        /\ IF target \in Keys(devices) /\ accepted
           THEN HandledSave(c, m, io)
           ELSE Handled(c, m)
        /\ UNCHANGED <<devices, device_info, scan, connVars, clock, boots>>

\* ---------------------------------------------------------------- unpair_device
\* a removal of the order (device_id, target_id) alone
ToRemove_OneOrder(pd, dev, target) == {p \in pd : p = <<dev, target>>}

\* the pairs with "device_id in pair and target_id in pair"
ToRemove(pd, dev, target) ==
    {p \in pd : (p[1] = dev \/ p[2] = dev) /\ (p[1] = target \/ p[2] = target)}

UnpairFrames(c, dev, target) ==
    <<Frame(c, [type |-> "unpaired", target_device_id |-> target,
                message |-> "Device unpaired successfully"])>>
    \o (IF target \in Keys(devices)
        THEN <<Frame(DictGet(devices, target),
                     [type |-> "unpaired", target_device_id |-> dev,
                      message |-> "Device was unpaired remotely"])>>
        ELSE <<>>)

OnUnpair(c, m, io) ==
    LET dev    == connDev[c]
        target == Get(m.target_device_id, None)
    IN  /\ m.type = "unpair_device"
        /\ paired_devices' = paired_devices \ ToRemove(paired_devices, dev, target)
        /\ save_persistent_data(io, device_info, paired_devices')
        /\ Emit(UnpairFrames(c, dev, target))
        /\ last' = [op |-> m.type, conn |-> c, dev |-> dev, req |-> m, io |-> io,
                    to_remove |-> ToRemove(paired_devices, dev, target)]
        /\ UNCHANGED <<devices, device_info, scan, connVars, clock, boots>>

\* ---------------------------------------------------------------- relay_message
\* a check that takes a sender with any pairing for paired with everyone
IsPaired_AnyPairing(pd, a, b) == \E p \in pd : p[1] = a \/ p[2] = a

\* a check of the one order (device_id, target_id) only
IsPaired_OneOrder(pd, a, b) == <<a, b>> \in pd

\* pair1 in paired_devices or pair2 in paired_devices
IsPaired(pd, a, b) == <<a, b>> \in pd \/ <<b, a>> \in pd

RelayedFrame(dev, target, message_type, payload) ==
    Frame(DictGet(devices, target),
          [type |-> "relay_message", from_device_id |-> dev,
           message_type |-> message_type, payload |-> payload])

\* the write to the target is in a try with "except: pass"
DeliverFrames(dev, target, message_type, payload) ==
    IF CanSend(DictGet(devices, target))
    THEN <<RelayedFrame(dev, target, message_type, payload)>>
    ELSE <<>>

OfflineFrames(c) ==
    <<Frame(c, [type |-> "relay_failed", message |-> "Target device is offline"])>>

NotPairedFrames(c) ==
    <<Frame(c, [type |-> "relay_failed", message |-> "Devices are not paired"])>>

\* an offline target dropped without a word to the sender
RelayFrames_SilentOffline(c, dev, target, message_type, payload) ==
    IF IsPaired(paired_devices, dev, target)
    THEN IF target \in Keys(devices)
         THEN DeliverFrames(dev, target, message_type, payload)
         ELSE <<>>
    ELSE NotPairedFrames(c)

RelayFrames(c, dev, target, message_type, payload) ==
    IF IsPaired(paired_devices, dev, target)
    THEN IF target \in Keys(devices)
         THEN DeliverFrames(dev, target, message_type, payload)
         ELSE OfflineFrames(c)
    ELSE NotPairedFrames(c)

OnRelayMessage(c, m) ==
    /\ m.type = "relay_message"
    /\ Emit(RelayFrames(c, connDev[c], Get(m.target_device_id, None),
                        Get(m.message_type, "generic"), Get(m.payload, "{}")))
    /\ Handled(c, m)
    /\ UNCHANGED <<relayVars, connVars, clock, boots>>

\* ---------------------------------------------------------------- other frames
\* the msg_type values the if/elif chain has a branch for
Branches == {"register", "pair_request", "pair_response", "unpair_device", "relay_message"}

\* a frame whose type no branch takes (or that has no type: data.get gives
\* None): the chain falls through and the loop takes the next frame
OnUnhandled(c, m) ==
    /\ Get(m.type, None) \notin Branches
    /\ Emit(<<>>)
    /\ last' = [op |-> Get(m.type, None), conn |-> c, dev |-> connDev[c], req |-> m]
    /\ UNCHANGED <<relayVars, connVars, clock, boots>>

InvalidJsonFrames(c) ==
    <<Frame(c, [type |-> "error", message |-> "Invalid JSON"])>>

\* json.loads raised JSONDecodeError
OnInvalidJson(c) ==
    /\ Emit(InvalidJsonFrames(c))
    /\ last' = [op |-> "invalid_json", conn |-> c, dev |-> connDev[c]]
    /\ UNCHANGED <<relayVars, connVars, clock, boots>>

\* ---------------------------------------------------------------- connections
\* the websockets the devices dict still refers to
Referenced(d) == {d[i].ws : i \in DOMAIN d}

\* a connection object not in use: closed, its handler gone, and neither the
\* devices dict nor the host client refers to it. A new connection takes the
\* lowest such number (the numbers are only names).
Unused(c) ==
    /\ connState[c] = "closed" /\ c \notin Referenced(devices) /\ c # host_ws
    /\ IF scan = NoScan THEN TRUE ELSE scan.ws # c

Fresh(c) == Unused(c) /\ \A b \in Conns : Unused(b) => c <= b

\* websockets.serve starts handle_client for a new connection
Accept(c) ==
    /\ Fresh(c)
    /\ connState' = [connState EXCEPT ![c] = "open"]
    /\ connDev' = [connDev EXCEPT ![c] = None]
    /\ last' = [op |-> "accept", conn |-> c]
    /\ sent' = <<>>
    /\ UNCHANGED <<relayVars, clock, boots>>

\* the transport of a connection goes away; its handler has not run yet
TransportLost(c) ==
    /\ connState[c] = "open"
    /\ connState' = [connState EXCEPT ![c] = "lost"]
    /\ last' = [op |-> "lost", conn |-> c]
    /\ sent' = <<>>
    /\ hostOut' = IF c = host_ws THEN <<>> ELSE hostOut   \* frames in flight are gone
    /\ UNCHANGED <<relayVars, connDev, clock, boots, hostInbox>>

\* a cleanup that leaves last_seen as it was
CleanedInfo_Unstamped(info, id, now) == info

\* the directory after the cleanup of device_id
CleanedInfo(info, id, now) ==
    IF id \in DOMAIN info THEN [info EXCEPT ![id].last_seen = now] ELSE info

\* "if device_id and device_id in devices"
CleanupApplies(d, id) == Truthy(id) /\ id \in Keys(d)

\* a cleanup that also forgets the pairings of the device that went away
Cleanup_DropsPairs(c, io) ==
    LET id == connDev[c]
    IN  /\ connState[c] = "lost"
        /\ scan.conn # c
        /\ devices' = DictDel(devices, id)
        /\ scan' = ScanAfterDel(scan, id)
        /\ device_info' = CleanedInfo(device_info, id, clock)
        /\ paired_devices' = paired_devices \ PairsOf(id, paired_devices)
        /\ save_persistent_data(io, device_info', paired_devices')
        /\ connState' = [connState EXCEPT ![c] = "closed"]
        /\ connDev' = [connDev EXCEPT ![c] = None]
        /\ last' = [op |-> "cleanup", conn |-> c, dev |-> id]
        /\ sent' = <<>>
        /\ UNCHANGED <<clock, boots, hostInbox>>

\* the finally block of handle_client
Cleanup(c, io) ==
    LET id == connDev[c]
    IN  /\ connState[c] = "lost"
        /\ scan.conn # c                 \* the handler is in no await of its loop body
        /\ IF CleanupApplies(devices, id)
           THEN /\ devices' = DictDel(devices, id)
                /\ scan' = ScanAfterDel(scan, id)
                /\ device_info' = CleanedInfo(device_info, id, clock)
                /\ IF id \in DOMAIN device_info
                   THEN save_persistent_data(io, device_info', paired_devices)
                   ELSE UNCHANGED <<devices_file, pairings_file>>
           ELSE UNCHANGED <<devices, device_info, devices_file, pairings_file, scan>>
        /\ connState' = [connState EXCEPT ![c] = "closed"]
        /\ connDev' = [connDev EXCEPT ![c] = None]
        /\ last' = [op |-> "cleanup", conn |-> c, dev |-> id]
        /\ sent' = <<>>
        /\ UNCHANGED <<paired_devices, clock, boots, hostInbox>>

\* the process starts: empty globals, then main() calls load_persistent_data.
\* Every handler task and every connection of the old process is gone.
StartsFrom(dfile, pfile) ==
    /\ devices' = <<>>
    /\ scan' = NoScan
    /\ device_info' = LoadedDevices(dfile)
    /\ paired_devices' = LoadedPairings(pfile)
    /\ connState' = [c \in Conns |-> "closed"]
    /\ connDev' = [c \in Conns |-> None]
    /\ sent' = <<>>

\* the relay process is killed and started again
Restart ==
    /\ boots < MaxBoots
    /\ boots' = boots + 1
    /\ StartsFrom(devices_file, pairings_file)
    /\ last' = [op |-> "restart"]
    /\ hostOut' = <<>>                    \* frames in flight are gone
    /\ UNCHANGED <<devices_file, pairings_file, clock, hostInbox>>

\* where a kill of the process can cut save_persistent_data: in the first
\* "with open(DEVICES_FILE, 'w')", between the two files, in the second
Cuts == {"devices_torn", "between", "pairings_torn"}

CutDevices(cut, info) ==
    IF cut = "devices_torn" THEN TornDevices ELSE ToJsonDevices(info)

CutPairings(cut, pd) ==
    IF cut = "pairings_torn" THEN TornPairings ELSE pairings_file

\* the requests whose handling calls save_persistent_data
Saves(c, m) ==
    \/ m.type \in {"register", "unpair_device"}
    \/ /\ m.type = "pair_response"
       /\ Get(m.target_device_id, None) \in Keys(devices)
       /\ Accepted(m)

\* the tables the handler of the request has built when it calls save_persistent_data
PendingInfo(c, m) ==
    IF m.type = "register"
    THEN RegisteredInfo(device_info, Get(m.device_id, None), Get(m.device_type, None),
                        Get(m.device_name, "Unknown"), clock)
    ELSE device_info

PendingPairs(c, m) ==
    CASE m.type = "pair_response" ->
            AddPair(paired_devices, connDev[c], Get(m.target_device_id, None))
      [] m.type = "unpair_device" ->
            paired_devices \ ToRemove(paired_devices, connDev[c], Get(m.target_device_id, None))
      [] OTHER -> paired_devices

\* the process is killed inside save_persistent_data while it handles the
\* request, and is started again
FlushCut(c, m, cut) ==
    /\ boots < MaxBoots
    /\ connState[c] = "open"
    /\ Saves(c, m)
    /\ boots' = boots + 1
    /\ devices_file' = CutDevices(cut, PendingInfo(c, m))
    /\ pairings_file' = CutPairings(cut, PendingPairs(c, m))
    /\ StartsFrom(devices_file', pairings_file')
    /\ last' = [op |-> "flush_cut", cut |-> cut, conn |-> c, dev |-> connDev[c], req |-> m]
    /\ hostOut' = <<>>
    /\ UNCHANGED <<clock, hostInbox>>

\* time passes
Tick ==
    /\ clock < MaxClock
    /\ clock' = clock + 1
    /\ last' = [op |-> "tick"]
    /\ sent' = <<>>
    /\ UNCHANGED <<relayVars, connVars, boots, hostInbox>>

\* ---------------------------------------------------------------- requests
\* what each device says of itself when it registers
TypeOf(i) == IF i = "host_1" THEN "laptop" ELSE "mobile"

NameOf(i) == IF i = "host_1" THEN "A" ELSE "B"

RegisterMsgs ==
    {[type |-> "register", device_id |-> i, device_type |-> TypeOf(i), device_name |-> NameOf(i)] :
        i \in DeviceIds}

PairRequestMsgs ==
    {[type |-> "pair_request", pairing_code |-> k, device_name |-> n] :
        k \in Codes, n \in {"B"}}

MalformedPairRequestMsgs ==
    {[type |-> "pair_request", pairing_code |-> k, device_name |-> n] :
        k \in BadCodes, n \in {"B"}}

PairResponseMsgs ==
    {[type |-> "pair_response", target_device_id |-> t, accepted |-> a, message |-> "msg"] :
        t \in DeviceIds, a \in Flags}

UnpairMsgs ==
    {[type |-> "unpair_device", target_device_id |-> t] : t \in DeviceIds}

RelayMsgs ==
    {[type |-> "relay_message", target_device_id |-> t, message_type |-> k[1], payload |-> k[2]] :
        t \in DeviceIds, k \in {<<"cmd", "p1">>, <<Absent, Absent>>}}

\* a device that registers again under another name
RenamedRegisterMsgs ==
    {[type |-> "register", device_id |-> "mob_1", device_type |-> "mobile", device_name |-> "B2"]}

\* a second laptop
SecondHostRegisterMsgs ==
    {[type |-> "register", device_id |-> "host_2", device_type |-> "laptop", device_name |-> "A2"]}

\* a register that lacks its device_id
MalformedRegisterMsgs ==
    {[type |-> "register", device_id |-> Absent, device_type |-> "mobile", device_name |-> "B"]}

\* frames with a type the relay has no branch for, or with no type
OtherMsgs == {[type |-> "ping"], [type |-> Absent]}

\* ---------------------------------------------------------------- the relay and its clients
\* a client other than the host client sends a request and the relay handles it
Serving(c) == connState[c] = "open" /\ c # host_ws /\ scan.conn # c

ClientConnects(c) == Accept(c) /\ UNCHANGED <<hostVars, hostInbox>>

ClientRegisters(c, m) == Serving(c) /\ OnRegister(c, m, "ok") /\ UNCHANGED hostVars

ClientPairRequest(c, m) == Serving(c) /\ OnPairRequest(c, m) /\ UNCHANGED hostVars

\* the pair_request branch when the send to the first laptop of the scan
\* suspends ("await laptop_ws.send"): other handlers run before it returns
PairRequestSuspends(c, m) ==
    LET laptops == {i \in DOMAIN devices :
                       /\ devices[i].id \in DOMAIN device_info
                       /\ device_info[devices[i].id].device_type = "laptop"}
    IN  /\ Serving(c)
        /\ scan = NoScan
        /\ m.type = "pair_request"
        /\ laptops # {}
        /\ LET i == CHOOSE j \in laptops : \A k \in laptops : j <= k
           IN  scan' = [conn |-> c, dev |-> connDev[c], req |-> m,
                        ws   |-> devices[i].ws,
                        size |-> Len(devices),
                        rest |-> [k \in 1..(Len(devices) - i) |-> devices[i + k].id]]
        /\ last' = [op |-> "scan", conn |-> c]
        /\ sent' = <<>>
        /\ UNCHANGED <<devices, device_info, paired_devices, devices_file, pairings_file,
                       connVars, clock, boots, hostInbox, hostVars>>

\* the suspended send returns. It went through: break. It raised: "except:
\* pass", and the for statement asks the iterator for the next entry, which
\* raises RuntimeError (dictionary changed size during iteration) when the
\* size of devices is not what it was when the scan began; "except Exception"
\* of the message loop logs it and nothing is sent. Otherwise the scan goes on
\* over the entries left.
PairRequestResumes ==
    LET offer(to) == Frame(to, [type |-> "pair_request", from_device_id |-> scan.dev,
                                pairing_code |-> Get(scan.req.pairing_code, None),
                                device_name |-> Get(scan.req.device_name, "Mobile")])
        left == [k \in DOMAIN scan.rest |->
                    [id |-> scan.rest[k], ws |-> DictGet(devices, scan.rest[k])]]
        to == FirstReachable(LaptopSlots(left, device_info))
    IN  /\ scan # NoScan
        /\ Emit(IF CanSend(scan.ws) THEN <<offer(scan.ws)>>
                ELSE IF Len(devices) # scan.size THEN <<>>
                ELSE IF to # NoConn THEN <<offer(to)>>
                ELSE <<Frame(scan.conn, [type |-> "pairing_failed",
                                         message |-> "No laptops available"])>>)
        /\ last' = [op |-> "pair_request", conn |-> scan.conn, dev |-> scan.dev, req |-> scan.req]
        /\ scan' = NoScan
        /\ UNCHANGED <<devices, device_info, paired_devices, devices_file, pairings_file,
                       connVars, clock, boots, hostVars>>

ClientPairResponse(c, m) == Serving(c) /\ OnPairResponse(c, m, "ok") /\ UNCHANGED hostVars

ClientUnpairs(c, m) == Serving(c) /\ OnUnpair(c, m, "ok") /\ UNCHANGED hostVars

ClientRelays(c, m) == Serving(c) /\ OnRelayMessage(c, m) /\ UNCHANGED hostVars

ClientSendsOther(c, m) == Serving(c) /\ OnUnhandled(c, m) /\ UNCHANGED hostVars

ClientSendsGarbage(c) == Serving(c) /\ OnInvalidJson(c) /\ UNCHANGED hostVars

ConnectionLost(c) ==
    TransportLost(c) /\ UNCHANGED <<host_pc, host_ws, host_pairing_code, host_paired, issued, identityVars>>

HandlerEnds(c) == Cleanup(c, "ok") /\ UNCHANGED hostVars

TimePasses == Tick /\ UNCHANGED hostVars

RelayRestarts ==
    Restart /\ UNCHANGED <<host_pc, host_ws, host_pairing_code, host_paired, issued, identityVars>>

\* the same handlers when a write to disk can fail, for clients that register
\* first and whose answers and unpairings name the companion
DiskRegisters(c, m, io) == Serving(c) /\ OnRegister(c, m, io) /\ UNCHANGED hostVars

DiskPairResponseMsgs ==
    {m \in PairResponseMsgs : m.target_device_id = "mob_1" /\ m.accepted = "true"}

DiskPairResponse(c, m, io) ==
    /\ Serving(c)
    /\ connDev[c] # None
    /\ Saves(c, m)
    /\ OnPairResponse(c, m, io)
    /\ UNCHANGED hostVars

DiskUnpairMsgs == {m \in UnpairMsgs : m.target_device_id = "mob_1"}

DiskUnpairs(c, m, io) ==
    /\ Serving(c)
    /\ connDev[c] # None
    /\ OnUnpair(c, m, io)
    /\ UNCHANGED hostVars

DiskHandlerEnds(c, io) ==
    /\ (CleanupApplies(devices, connDev[c]) /\ connDev[c] \in DOMAIN device_info) \/ io = "ok"
    /\ Cleanup(c, io)
    /\ UNCHANGED hostVars

KilledInFlush(c, m, cut) ==
    /\ c # host_ws
    /\ FlushCut(c, m, cut)
    /\ UNCHANGED <<host_pc, host_ws, host_pairing_code, host_paired, issued, identityVars>>

\* ---------------------------------------------------------------- the host client
\* laptop_device.json: missing, cut short (opened with 'w', which empties it,
\* and not wholly written), or holding the record. device_id is the id of the
\* record that was written or was being written.
NoDeviceFile == [state |-> "none", device_id |-> None]

TornDeviceFile(id) == [state |-> "torn", device_id |-> id]

DeviceFileOf(id) == [state |-> "ok", device_id |-> id]

\* datetime.now().date(): the date changes no faster than the clock
DateOf(now) == now

\* "laptop_<hostname>_<sha256(hostname:date)[:12]>": one id for each date
NewIdentity(date) ==
    CASE date = 0 -> HostId
      [] date = 1 -> "host_2"
      [] OTHER    -> "host_3"

\* os.path.exists(DEVICE_FILE), and json.load and data['device_id'] do not raise
Readable(file) == file.state = "ok"

\* self.device_id after load_device_identity
LoadedIdentity(file, now) ==
    IF Readable(file) THEN file.device_id ELSE NewIdentity(DateOf(now))

\* save_device_identity: the record written, the write cut short (by an
\* exception, caught and logged, or by a kill), or open() raised
IdentityIo == {"ok", "torn", "fail"}

SavedIdentity(io, file, id) ==
    CASE io = "ok"   -> DeviceFileOf(id)
      [] io = "torn" -> TornDeviceFile(id)
      [] OTHER       -> file

\* the file after load_device_identity: saved only when no id was read
IdentityFileAfter(io, file, now) ==
    IF Readable(file) THEN file ELSE SavedIdentity(io, file, LoadedIdentity(file, now))

\* the host process starts: __init__, which loads the identity, then start()
HostStarts(io) ==
    /\ host_pc = "off"
    /\ Readable(device_file) => io = "ok"
    /\ host_device_id' = LoadedIdentity(device_file, clock)
    /\ device_file' = IdentityFileAfter(io, device_file, clock)
    /\ host_pc' = "connect"
    /\ host_ws' = NoConn
    /\ host_pairing_code' = None
    /\ host_paired' = EmptyDict
    /\ hostInbox' = <<>>
    /\ hostOut' = <<>>
    /\ issued' = [at |-> 0, used |-> FALSE]
    /\ last' = [op |-> "host_start", loaded |-> Readable(device_file)]
    /\ sent' = <<>>
    /\ UNCHANGED <<relayVars, connVars, clock, boots>>

\* the host process ends (Ctrl+C, or a kill); the relay finds its websocket closed
HostStops ==
    /\ host_pc # "off"
    /\ host_pc' = "off"
    /\ host_ws' = NoConn
    /\ host_device_id' = None
    /\ host_pairing_code' = None
    /\ host_paired' = EmptyDict
    /\ hostInbox' = <<>>
    /\ hostOut' = <<>>
    /\ issued' = [at |-> 0, used |-> FALSE]
    /\ connState' = IF host_ws # NoConn /\ connState[host_ws] = "open"
                    THEN [connState EXCEPT ![host_ws] = "lost"]
                    ELSE connState
    /\ last' = [op |-> "host_stop"]
    /\ sent' = <<>>
    /\ UNCHANGED <<relayVars, connDev, clock, boots, device_file>>

\* connect(): a new websocket, then the register frame
HostRegisterMsg ==
    [type |-> "register", device_id |-> host_device_id, device_type |-> "laptop",
     device_name |-> HostName]

HostConnects(c) ==
    /\ host_pc = "connect"
    /\ Accept(c)
    /\ host_ws' = c
    /\ hostOut' = <<HostRegisterMsg>>
    /\ hostInbox' = <<>>
    /\ host_pc' = "sleep"
    /\ UNCHANGED <<host_pairing_code, host_paired, issued, identityVars>>

\* connect() raised (the relay is not reachable) and returned False: start()
\* logs and sleeps ten seconds
HostConnectFails ==
    /\ host_pc = "connect"
    /\ host_pc' = "backoff"
    /\ last' = [op |-> "host_connect_failed"]
    /\ sent' = <<>>
    /\ UNCHANGED <<relayVars, connVars, clock, boots, host_ws, host_pairing_code, host_paired,
                   hostInbox, hostOut, issued, identityVars>>

\* asyncio.sleep(10) is over: "while self.running" goes round
HostBackoffEnds ==
    /\ host_pc = "backoff"
    /\ host_pc' = "connect"
    /\ last' = [op |-> "host_retries"]
    /\ sent' = <<>>
    /\ UNCHANGED <<relayVars, connVars, clock, boots, host_ws, host_pairing_code, host_paired,
                   hostInbox, hostOut, issued, identityVars>>

\* start(): after asyncio.sleep(2), a code unless self.paired_devices holds a pairing.
\* Frames that arrived during the sleep are still unread: listen_for_messages
\* has not started.
NeedsCode(paired) == DOMAIN paired = {}

HostWakes(code) ==
    /\ host_pc = "sleep"
    /\ host_pairing_code' = IF NeedsCode(host_paired) THEN code ELSE host_pairing_code
    /\ issued' = IF NeedsCode(host_paired) THEN [at |-> clock, used |-> FALSE] ELSE issued
    /\ host_pc' = "listen"
    /\ last' = [op |-> "host_wakes", generated |-> NeedsCode(host_paired)]
    /\ sent' = <<>>
    /\ UNCHANGED <<relayVars, connVars, clock, boots, host_ws, host_paired, hostInbox, hostOut,
                   identityVars>>

\* a comparison that takes any offered code once a code is issued
CodeMatches_AnyCode(mine, offered) == Truthy(mine)

\* handle_pair_request: "if self.pairing_code and pairing_code == self.pairing_code"
CodeMatches(mine, offered) == Truthy(mine) /\ offered = mine

PairResponseOf(d) ==
    IF CodeMatches(host_pairing_code, d.pairing_code)
    THEN [type |-> "pair_response", target_device_id |-> d.from_device_id,
          accepted |-> "true", message |-> "Paired (persistent)"]
    ELSE [type |-> "pair_response", target_device_id |-> d.from_device_id,
          accepted |-> "false", message |-> "Invalid pairing code"]

\* the "paired" branch of handle_message: append unless the peer is in the list
WithPairing(paired, d) ==
    IF \E e \in DOMAIN paired : e.peer_device_id = d.peer_device_id
    THEN paired
    ELSE paired @@ ([peer_device_id |-> d.peer_device_id,
                     peer_device_name |-> d.peer_device_name,
                     peer_device_type |-> "mobile"] :> 1)

\* the "unpaired" branch: drop the entries of that peer
WithoutPairing(paired, target) ==
    [e \in {x \in DOMAIN paired : x.peer_device_id # target} |-> paired[e]]

\* the branches of handle_message whose log line slices an id that is None:
\* the TypeError ends listen_for_messages
HostRaises(d) ==
    \/ d.type = "unpaired" /\ ~Sliceable(d.target_device_id)
    \/ d.type = "relay_message" /\ ~Sliceable(d.from_device_id)

\* listen_for_messages takes the next frame and handle_message handles it
HostHandles ==
    LET d == Head(hostInbox)
    IN  /\ host_pc = "listen"
        /\ hostInbox # <<>>
        /\ hostInbox' = Tail(hostInbox)
        /\ host_paired' =
              CASE d.type = "existing_pairings" -> d.pairings
                [] d.type = "paired" -> WithPairing(host_paired, d)
                [] d.type = "unpaired" -> WithoutPairing(host_paired, d.target_device_id)
                [] OTHER -> host_paired
        /\ IF d.type = "pair_request"
           THEN IF connState[host_ws] = "open"
                THEN /\ Len(hostOut) < MaxOut
                     /\ hostOut' = Append(hostOut, PairResponseOf(d))
                     /\ issued' = [issued EXCEPT !.used = @ \/ PairResponseOf(d).accepted = "true"]
                     /\ host_pc' = host_pc
                     /\ host_ws' = host_ws
                ELSE /\ hostOut' = hostOut           \* send raised ConnectionClosed
                     /\ issued' = issued
                     /\ host_pc' = "connect"
                     /\ host_ws' = NoConn
           ELSE /\ hostOut' = hostOut
                /\ issued' = issued
                /\ host_pc' = IF HostRaises(d) THEN "connect" ELSE host_pc
                /\ host_ws' = host_ws
        /\ last' = [op |-> "host_handles", req |-> d, code |-> host_pairing_code]
        /\ sent' = <<>>
        /\ UNCHANGED <<relayVars, connVars, clock, boots, host_pairing_code, identityVars>>

\* a loop that ends when the connection is lost
HostSeesClose_GivesUp ==
    /\ host_pc = "listen"
    /\ connState[host_ws] # "open"
    /\ host_pc' = "off"
    /\ host_ws' = NoConn
    /\ hostInbox' = <<>>
    /\ last' = [op |-> "host_sees_close"]
    /\ sent' = <<>>
    /\ UNCHANGED <<relayVars, connVars, clock, boots, host_pairing_code, host_paired, hostOut, issued,
                   identityVars>>

\* the websocket is closed: listen_for_messages returns and start() loops
HostSeesClose ==
    /\ host_pc = "listen"
    /\ connState[host_ws] # "open"
    /\ host_pc' = "connect"
    /\ host_ws' = NoConn                 \* the closed websocket is used no more
    /\ hostInbox' = <<>>
    /\ last' = [op |-> "host_sees_close"]
    /\ sent' = <<>>
    /\ UNCHANGED <<relayVars, connVars, clock, boots, host_pairing_code, host_paired, hostOut, issued,
                   identityVars>>

\* the relay reads the next frame the host wrote
HostFrameArrives ==
    LET m == Head(hostOut)
    IN  /\ hostOut # <<>>
        /\ host_ws # NoConn
        /\ connState[host_ws] = "open"
        /\ hostOut' = Tail(hostOut)
        /\ IF m.type = "register"
           THEN OnRegister(host_ws, m, "ok")
           ELSE OnPairResponse(host_ws, m, "ok")
        /\ UNCHANGED <<host_pc, host_ws, host_pairing_code, host_paired, issued, identityVars>>

\* the host process is killed and started again: __init__ and then start().
\* The relay finds the old websocket closed.
HostRestarts ==
    /\ host_pc' = "connect"
    /\ host_ws' = NoConn
    /\ host_pairing_code' = None
    /\ host_paired' = EmptyDict
    /\ hostInbox' = <<>>
    /\ hostOut' = <<>>
    /\ issued' = [at |-> 0, used |-> FALSE]
    /\ host_device_id' = LoadedIdentity(device_file, clock)
    /\ device_file' = IdentityFileAfter("ok", device_file, clock)
    /\ connState' = IF host_ws # NoConn /\ connState[host_ws] = "open"
                    THEN [connState EXCEPT ![host_ws] = "lost"]
                    ELSE connState
    /\ last' = [op |-> "host_restart"]
    /\ sent' = <<>>
    /\ UNCHANGED <<relayVars, connDev, clock, boots>>

\* the requests of a companion
CompanionRegisterMsgs ==
    {[type |-> "register", device_id |-> "mob_1", device_type |-> "mobile", device_name |-> "B"]}

Init ==
    /\ devices = <<>>
    /\ device_info = EmptyDict
    /\ paired_devices = {}
    /\ devices_file = EmptyDict
    /\ pairings_file = {}
    /\ connState = [c \in Conns |-> "closed"]
    /\ connDev = [c \in Conns |-> None]
    /\ clock = 0
    /\ boots = 0
    /\ last = [op |-> "init"]
    /\ sent = <<>>
    /\ host_pc = "off"
    /\ host_ws = NoConn
    /\ host_pairing_code = None
    /\ host_paired = EmptyDict
    /\ hostInbox = <<>>
    /\ hostOut = <<>>
    /\ issued = [at |-> 0, used |-> FALSE]
    /\ device_file = NoDeviceFile
    /\ host_device_id = None
    /\ scan = NoScan

Next ==
    \/ \E c \in Conns : ClientConnects(c)
    \/ \E c \in Conns, m \in RegisterMsgs : ClientRegisters(c, m)
    \/ \E c \in Conns, m \in PairRequestMsgs : ClientPairRequest(c, m)
    \/ \E c \in Conns, m \in PairResponseMsgs : ClientPairResponse(c, m)
    \/ \E c \in Conns, m \in UnpairMsgs : ClientUnpairs(c, m)
    \/ \E c \in Conns, m \in RelayMsgs : ClientRelays(c, m)
    \/ \E c \in Conns : ConnectionLost(c)
    \/ \E c \in Conns : HandlerEnds(c)

Spec == Init /\ [][Next]_vars

\* the relay's registrations and disconnections as time passes
NextClock ==
    \/ \E c \in Conns : ClientConnects(c)
    \/ \E c \in Conns, m \in RegisterMsgs : ClientRegisters(c, m)
    \/ \E c \in Conns : ConnectionLost(c)
    \/ \E c \in Conns : HandlerEnds(c)
    \/ TimePasses

SpecClock == Init /\ [][NextClock]_vars

\* the same, with a device that changes its name
NextRename ==
    \/ NextClock
    \/ \E c \in Conns, m \in RenamedRegisterMsgs : ClientRegisters(c, m)

SpecRename == Init /\ [][NextRename]_vars

\* the relay, its clients, and restarts of the relay process
NextRestart ==
    \/ \E c \in Conns : ClientConnects(c)
    \/ \E c \in Conns, m \in RegisterMsgs : ClientRegisters(c, m)
    \/ \E c \in Conns, m \in PairResponseMsgs : ClientPairResponse(c, m)
    \/ \E c \in Conns, m \in UnpairMsgs : ClientUnpairs(c, m)
    \/ \E c \in Conns : ConnectionLost(c)
    \/ \E c \in Conns : HandlerEnds(c)
    \/ RelayRestarts

SpecRestart == Init /\ [][NextRestart]_vars

\* the same, with clients that relay
NextLife ==
    \/ NextRestart
    \/ \E c \in Conns, m \in RelayMsgs : ClientRelays(c, m)

SpecLife == Init /\ [][NextLife]_vars

\* the relay, its clients, and kills of the relay process while it saves
NextCrash ==
    \/ \E c \in Conns : ClientConnects(c)
    \/ \E c \in Conns, m \in RegisterMsgs : ClientRegisters(c, m)
    \/ \E c \in Conns, m \in PairResponseMsgs : ClientPairResponse(c, m)
    \/ \E c \in Conns, m \in UnpairMsgs : ClientUnpairs(c, m)
    \/ \E c \in Conns : ConnectionLost(c)
    \/ \E c \in Conns : HandlerEnds(c)
    \/ \E c \in Conns, m \in RegisterMsgs \cup PairResponseMsgs \cup UnpairMsgs, cut \in Cuts :
          KilledInFlush(c, m, cut)

SpecCrash == Init /\ [][NextCrash]_vars

\* the relay and clients whose offers carry codes of any form
NextOffer ==
    \/ \E c \in Conns : ClientConnects(c)
    \/ \E c \in Conns, m \in RegisterMsgs : ClientRegisters(c, m)
    \/ \E c \in Conns, m \in PairRequestMsgs \cup MalformedPairRequestMsgs :
          ClientPairRequest(c, m)
    \/ \E c \in Conns : ConnectionLost(c)
    \/ \E c \in Conns : HandlerEnds(c)

SpecOffer == Init /\ [][NextOffer]_vars

\* the relay and clients that also send frames of no known form
NextFrames ==
    \/ \E c \in Conns : ClientConnects(c)
    \/ \E c \in Conns, m \in RegisterMsgs \cup MalformedRegisterMsgs : ClientRegisters(c, m)
    \/ \E c \in Conns, m \in OtherMsgs : ClientSendsOther(c, m)
    \/ \E c \in Conns : ClientSendsGarbage(c)
    \/ \E c \in Conns : ConnectionLost(c)
    \/ \E c \in Conns : HandlerEnds(c)

SpecFrames == Init /\ [][NextFrames]_vars

\* the relay as time passes, with pairings, relays and disconnections
NextGone ==
    \/ \E c \in Conns : ClientConnects(c)
    \/ \E c \in Conns, m \in RegisterMsgs : ClientRegisters(c, m)
    \/ \E c \in Conns, m \in DiskPairResponseMsgs : ClientPairResponse(c, m)
    \/ \E c \in Conns, m \in {r \in RelayMsgs : r.message_type = "cmd"} : ClientRelays(c, m)
    \/ \E c \in Conns : ConnectionLost(c)
    \/ \E c \in Conns : HandlerEnds(c)
    \/ TimePasses

SpecGone == Init /\ [][NextGone]_vars

\* the relay and its clients when a send of the pair_request scan can suspend
NextScan ==
    \/ \E c \in Conns : ClientConnects(c)
    \/ \E c \in Conns, m \in RegisterMsgs : ClientRegisters(c, m)
    \/ \E c \in Conns, m \in PairRequestMsgs : ClientPairRequest(c, m)
    \/ \E c \in Conns, m \in PairRequestMsgs : PairRequestSuspends(c, m)
    \/ PairRequestResumes
    \/ \E c \in Conns : ConnectionLost(c)
    \/ \E c \in Conns : HandlerEnds(c)

SpecScan == Init /\ [][NextScan]_vars

\* the relay, two laptops and a companion, and offers
NextHosts ==
    \/ \E c \in Conns : ClientConnects(c)
    \/ \E c \in Conns, m \in RegisterMsgs \cup SecondHostRegisterMsgs : ClientRegisters(c, m)
    \/ \E c \in Conns, m \in PairRequestMsgs : ClientPairRequest(c, m)
    \/ \E c \in Conns : ConnectionLost(c)
    \/ \E c \in Conns : HandlerEnds(c)

SpecHosts == Init /\ [][NextHosts]_vars

\* the relay and its clients on a disk whose writes can fail
NextDisk ==
    \/ \E c \in Conns : ClientConnects(c)
    \/ \E c \in Conns, m \in RegisterMsgs, io \in IoOutcomes : DiskRegisters(c, m, io)
    \/ \E c \in Conns, m \in DiskPairResponseMsgs, io \in IoOutcomes : DiskPairResponse(c, m, io)
    \/ \E c \in Conns, m \in DiskUnpairMsgs, io \in IoOutcomes : DiskUnpairs(c, m, io)
    \/ \E c \in Conns : ConnectionLost(c)
    \/ \E c \in Conns, io \in IoOutcomes : DiskHandlerEnds(c, io)

SpecDisk == Init /\ [][NextDisk]_vars

\* the relay with the host client and companions
InitHost ==
    /\ devices = <<>>
    /\ device_info = EmptyDict
    /\ paired_devices = {}
    /\ devices_file = EmptyDict
    /\ pairings_file = {}
    /\ connState = [c \in Conns |-> "closed"]
    /\ connDev = [c \in Conns |-> None]
    /\ clock = 0
    /\ boots = 0
    /\ last = [op |-> "init"]
    /\ sent = <<>>
    /\ host_pc = "connect"
    /\ host_ws = NoConn
    /\ host_pairing_code = None
    /\ host_paired = EmptyDict
    /\ hostInbox = <<>>
    /\ hostOut = <<>>
    /\ issued = [at |-> 0, used |-> FALSE]
    /\ device_file = DeviceFileOf(HostId)
    /\ host_device_id = HostId
    /\ scan = NoScan

NextHost ==
    \/ \E c \in Conns : HostConnects(c)
    \/ \E code \in HostCodes : HostWakes(code)
    \/ HostHandles
    \/ HostSeesClose
    \/ HostFrameArrives
    \/ \E c \in Conns : ClientConnects(c)
    \/ \E c \in Conns, m \in CompanionRegisterMsgs : ClientRegisters(c, m)
    \/ \E c \in Conns, m \in PairRequestMsgs : ClientPairRequest(c, m)
    \/ \E c \in Conns : ConnectionLost(c)
    \/ \E c \in Conns : HandlerEnds(c)

SpecHost == InitHost /\ [][NextHost]_vars

\* the relay with the host client and companions that also unpair
NextForget ==
    \/ NextHost
    \/ \E c \in Conns, m \in UnpairMsgs : ClientUnpairs(c, m)

SpecForget == InitHost /\ [][NextForget]_vars

\* the host client and a companion on connections that stay up, as time passes
NextExpiry ==
    \/ \E c \in Conns : HostConnects(c)
    \/ \E code \in HostCodes : HostWakes(code)
    \/ HostHandles
    \/ HostFrameArrives
    \/ \E c \in Conns : ClientConnects(c)
    \/ \E c \in Conns, m \in CompanionRegisterMsgs : ClientRegisters(c, m)
    \/ \E c \in Conns, m \in PairRequestMsgs : ClientPairRequest(c, m)
    \/ TimePasses

SpecExpiry == InitHost /\ [][NextExpiry]_vars

\* the host process started and stopped over the days, and the relay
NextIdentity ==
    \/ \E io \in IdentityIo : HostStarts(io)
    \/ HostStops
    \/ \E c \in Conns : HostConnects(c)
    \/ \E code \in HostCodes : HostWakes(code)
    \/ HostSeesClose
    \/ HostFrameArrives
    \/ \E c \in Conns : ConnectionLost(c)
    \/ \E c \in Conns : HandlerEnds(c)
    \/ TimePasses

SpecIdentity == Init /\ [][NextIdentity]_vars

\* the host's loop against a relay that is not always reachable
HostAttempts == (\E c \in Conns : HostConnects(c)) \/ HostConnectFails

NextRetry ==
    \/ HostAttempts
    \/ HostBackoffEnds
    \/ \E code \in HostCodes : HostWakes(code)
    \/ HostHandles
    \/ HostSeesClose
    \/ HostFrameArrives
    \/ HostStops
    \/ \E c \in Conns : ConnectionLost(c)
    \/ \E c \in Conns : HandlerEnds(c)

\* the event loop runs every coroutine that can go on: a sleep ends, a closed
\* websocket ends the iteration, connect() returns
SpecRetry ==
    /\ InitHost
    /\ [][NextRetry]_vars
    /\ WF_vars(HostAttempts)
    /\ WF_vars(HostBackoffEnds)
    /\ WF_vars(\E code \in HostCodes : HostWakes(code))
    /\ WF_vars(HostSeesClose)

\* the same, with restarts of the host process
NextResume == NextHost \/ HostRestarts

SpecResume == InitHost /\ [][NextResume]_vars

\* ---------------------------------------------------------------- what the claims speak of
\* the PairingStore holds the pair in one of its two orders
InStore(a, b) == <<a, b>> \in paired_devices \/ <<b, a>> \in paired_devices

\* the last step was the relay handling a relay_message request
RelayHandled == last.op = "relay_message"

RelayTarget == Get(last.req.target_device_id, None)

\* the relay_message frames the last step wrote
Delivered == SelectSeq(sent, LAMBDA f : f.msg.type = "relay_message")

\* the frame carries what the request of the last step supplied
CarriesRequest(f) ==
    /\ f.msg.message_type = Get(last.req.message_type, "generic")
    /\ f.msg.payload = Get(last.req.payload, "{}")

\* C1: every relay_message frame written to a device T carries as from_device_id
\* the id S under which the sending connection is registered; S and T are paired
\* in the PairingStore at that moment; message_type and payload are the sender's.
C1_DeliveredFromRegisteredPairedSender ==
    \A i \in DOMAIN sent :
        sent[i].msg.type = "relay_message" =>
            /\ RelayHandled
            /\ last.dev \in DOMAIN device_info
            /\ connDev[last.conn] = last.dev
            /\ sent[i].msg.from_device_id = last.dev
            /\ RelayTarget \in Keys(devices)
            /\ sent[i].to = DictGet(devices, RelayTarget)
            /\ InStore(last.dev, RelayTarget)
            /\ CarriesRequest(sent[i])

\* C2: a relay_message between two registered devices that are not paired is
\* answered with relay_failed "not paired" to the sender and with nothing else.
C2_UnpairedRelayFails ==
    (/\ RelayHandled
     /\ last.dev \in DOMAIN device_info
     /\ RelayTarget \in DOMAIN device_info
     /\ ~InStore(last.dev, RelayTarget))
    => sent = <<Frame(last.conn, [type |-> "relay_failed",
                                  message |-> "Devices are not paired"])>>

C2_Witness ==
    /\ RelayHandled
    /\ last.dev \in DOMAIN device_info
    /\ RelayTarget \in Keys(devices)
    /\ CanSend(DictGet(devices, RelayTarget))
    /\ RelayTarget # last.dev
    /\ paired_devices # {}
    /\ ~InStore(last.dev, RelayTarget)
    /\ Len(sent) = 1 /\ sent[1].msg.type = "relay_failed"

OutcomesToSender ==
    SelectSeq(sent, LAMBDA f : f.to = last.conn
                               /\ f.msg.type \in {"relay_success", "relay_failed"})

\* C4: for a relay_message between paired devices whose target is in the
\* registry the sender is told exactly one outcome: success when the write to
\* the target succeeded, failure when it failed.
C4_ExactlyOneOutcome ==
    (/\ RelayHandled
     /\ InStore(last.dev, RelayTarget)
     /\ RelayTarget \in Keys(devices))
    => /\ Len(OutcomesToSender) = 1
       /\ OutcomesToSender[1].msg.type = "relay_success" <=> Delivered # <<>>

\* C4, the half about failures alone: a write to the target that failed is
\* reported to the sender.
C4_FailedWriteReported ==
    (/\ RelayHandled
     /\ InStore(last.dev, RelayTarget)
     /\ RelayTarget \in Keys(devices)
     /\ Delivered = <<>>)
    => OutcomesToSender # <<>>

\* the last step was the relay handling a register request for this id
Registered(id) == last.op = "register" /\ Get(last.req.device_id, None) = id

\* C5: when device_id X, held in the registry by connection c1, is registered
\* from another connection c2, the registry maps X to c2 and c1 is closed.
C5_SupersededConnectionClosed ==
    [][\A id \in DeviceIds, c1 \in Conns :
          (/\ Registered(id)'
           /\ id \in Keys(devices)
           /\ DictGet(devices, id) = c1
           /\ c1 # last'.conn)
          => /\ DictGet(devices', id) = last'.conn
             /\ connState'[c1] # "open"]_vars

\* C5, the half that the code keeps: the registry maps X to the connection
\* that registered it last.
C5_RegistryMapsToNewest ==
    \A id \in DeviceIds : Registered(id) => DictGet(devices, id) = last.conn

\* C6: registering a device_id that the directory knows adds no entry and sets
\* the entry's last_seen to the time of the registration.
C6_ReRegisterOneEntryLastSeen ==
    [][\A id \in DeviceIds :
          (Registered(id)' /\ id \in DOMAIN device_info)
          => /\ DOMAIN device_info' = DOMAIN device_info
             /\ device_info'[id].last_seen = clock
             /\ DOMAIN devices_file' = DOMAIN device_info
             /\ devices_file'[id].last_seen = clock]_vars

C6_Witness ==
    \E id \in DeviceIds :
        /\ Registered(id)
        /\ device_info[id].first_seen < device_info[id].last_seen
        /\ last.conn # 1
        /\ Cardinality(DOMAIN device_info) = 1

\* the pairs an accepted pair_response from a registered device recorded
Recorded == {p \in paired_devices : p[1] \in DOMAIN device_info}

\* the peers the existing_pairings frame of the last step lists
ListedPeers ==
    UNION {{e.peer_device_id : e \in DOMAIN sent[i].msg.pairings} :
              i \in {j \in DOMAIN sent : sent[j].msg.type = "existing_pairings"}}

\* C7: a pairing recorded as (A, B) counts in both directions: a relay from A
\* to B and from B to A passes the pairing check, and a registration of A
\* lists B and one of B lists A.
C7_PairingSymmetric ==
    \A p \in Recorded :
        /\ (RelayHandled /\ {last.dev, RelayTarget} = {p[1], p[2]}
              /\ (p[1] = p[2] => last.dev = RelayTarget))
           => \A i \in DOMAIN sent : sent[i].msg.type # "relay_failed"
                                     \/ sent[i].msg.message # "Devices are not paired"
        /\ Registered(p[1]) => p[2] \in ListedPeers
        /\ Registered(p[2]) => p[1] \in ListedPeers

C7_Witness ==
    \E p \in Recorded :
        /\ p[1] # p[2]
        /\ <<p[2], p[1]>> \notin paired_devices
        /\ RelayHandled
        /\ last.dev = p[2]
        /\ RelayTarget = p[1]
        /\ Delivered # <<>>

C7_WitnessListed ==
    \E p \in Recorded :
        /\ p[1] # p[2]
        /\ <<p[2], p[1]>> \notin paired_devices
        /\ Registered(p[2])
        /\ p[1] \in ListedPeers

\* C8: an unpair_device naming a device the sender is not paired with is
\* answered without an error and changes neither the PairingStore nor the
\* DeviceDirectory (stated for a registered sender and a store whose pairs
\* all come from registered devices).
C8_UnpairAbsentChangesNothing ==
    [][(/\ last'.op = "unpair_device"
        /\ last'.dev \in DOMAIN device_info
        /\ paired_devices = Recorded
        /\ ~InStore(last'.dev, Get(last'.req.target_device_id, None)))
       => /\ paired_devices' = paired_devices
          /\ device_info' = device_info
          /\ \A i \in DOMAIN sent' : sent'[i].msg.type # "error"]_vars

\* the host client holds the registry entry of its id on an open websocket
HostOnline ==
    /\ host_ws # NoConn
    /\ connState[host_ws] = "open"
    /\ HostId \in Keys(devices)
    /\ DictGet(devices, HostId) = host_ws

\* the last step was the host client handling a forwarded offer
HostGotOffer == last.op = "host_handles" /\ last.req.type = "pair_request"

\* the last step was the relay handling a pair_response of the host client
HostAnswerHandled == last.op = "pair_response" /\ last.conn = host_ws

PairedFrame(to, peer) ==
    \E i \in DOMAIN sent :
        /\ sent[i].to = to
        /\ sent[i].msg.type = "paired"
        /\ sent[i].msg.peer_device_id = peer

\* C9: the pairing happy path, step by step. With host and companion
\* registered, the companion's pair_request is forwarded to the host with the
\* companion's id and code; the host, holding that code, answers accepted=true
\* naming the companion; on that answer the store holds (host, companion) and
\* both are sent "paired".
C9_HappyPath ==
    /\ (last.op = "pair_request" /\ last.dev \in DOMAIN device_info /\ HostOnline)
       => sent = <<Frame(host_ws, [type |-> "pair_request",
                                   from_device_id |-> last.dev,
                                   pairing_code |-> last.req.pairing_code,
                                   device_name |-> last.req.device_name])>>
    /\ (/\ HostGotOffer
        /\ host_ws # NoConn
        /\ connState[host_ws] = "open"
        /\ host_pairing_code # None
        /\ last.req.pairing_code = host_pairing_code)
       => /\ hostOut # <<>>
          /\ hostOut[Len(hostOut)].type = "pair_response"
          /\ hostOut[Len(hostOut)].accepted = "true"
          /\ hostOut[Len(hostOut)].target_device_id = last.req.from_device_id
    /\ (/\ HostAnswerHandled
        /\ last.req.accepted = "true"
        /\ last.req.target_device_id \in Keys(devices))
       => /\ <<HostId, last.req.target_device_id>> \in paired_devices
          /\ PairedFrame(host_ws, last.req.target_device_id)
          /\ CanSend(DictGet(devices, last.req.target_device_id))
                => PairedFrame(DictGet(devices, last.req.target_device_id), HostId)

C9_Witness ==
    /\ HostAnswerHandled
    /\ last.req.accepted = "true"
    /\ last.req.target_device_id = "mob_1"
    /\ host_pairing_code = "482913"
    /\ paired_devices = {<<HostId, "mob_1">>}
    /\ pairings_file = {<<HostId, "mob_1">>}
    /\ PairedFrame(host_ws, "mob_1")
    /\ PairedFrame(DictGet(devices, "mob_1"), HostId)
    /\ DictGet(devices, "mob_1") # host_ws

\* C10: when the host rejects an offer its code stays as it is, and a held code
\* is still accepted when offered; when the relay handles the rejection only
\* the companion is sent pairing_failed, the host is sent nothing and the
\* PairingStore stays as it is.
C10_RejectLeavesCodeAndStore ==
    [][/\ (HostGotOffer' /\ hostOut' # hostOut
             /\ hostOut'[Len(hostOut')].accepted = "false")
          => /\ host_pairing_code' = host_pairing_code
             /\ last'.req.pairing_code # host_pairing_code
       /\ (/\ HostGotOffer'
           /\ connState[host_ws] = "open"
           /\ host_pairing_code # None
           /\ last'.req.pairing_code = host_pairing_code)
          => hostOut'[Len(hostOut')].accepted = "true"
       /\ (HostAnswerHandled' /\ last'.req.accepted = "false")
          => /\ paired_devices' = paired_devices
             /\ pairings_file' = pairings_file
             /\ hostInbox' = hostInbox
             /\ \A i \in DOMAIN sent' :
                   /\ sent'[i].msg.type = "pairing_failed"
                   /\ sent'[i].to # host_ws
                   /\ sent'[i].to = DictGet(devices, last'.req.target_device_id)
             /\ (/\ last'.req.target_device_id \in Keys(devices)
                 /\ CanSend(DictGet(devices, last'.req.target_device_id)))
                => Len(sent') = 1]_vars

C10_Witness ==
    /\ HostAnswerHandled
    /\ last.req.accepted = "false"
    /\ last.req.target_device_id = "mob_1"
    /\ host_pairing_code = "482913"
    /\ Len(sent) = 1
    /\ sent[1].msg.type = "pairing_failed"
    /\ sent[1].to = DictGet(devices, "mob_1")
    /\ sent[1].to # host_ws

ReportedPairings ==
    {i \in DOMAIN hostInbox : /\ hostInbox[i].type = "existing_pairings"
                              /\ DOMAIN hostInbox[i].pairings # {}}

\* C12: on a connection on which the relay has reported existing pairings for
\* the host's id, the host, when it decides after connecting, generates no
\* pairing code and goes on to listen.
C12_ReportedPairingsNoCode ==
    [][(last'.op = "host_wakes" /\ ReportedPairings # {})
       => /\ ~last'.generated
          /\ host_pairing_code' = host_pairing_code
          /\ host_pc' = "listen"]_vars

\* the directory knows the device as a host (device_type "laptop")
HostClass(id) == id \in DOMAIN device_info /\ device_info[id].device_type = "laptop"

\* C13: a pairing (A, B) enters the PairingStore only by a pair_response with
\* accepted=true that a registered host-class device A sends, naming a
\* companion B that holds a live session. (That B's offer was forwarded to A
\* before is a fact of the past that no table of the relay records.)
C13_PairingOnlyFromHostAnswer ==
    [][\A p \in paired_devices' \ paired_devices :
          /\ last'.op = "pair_response"
          /\ last'.req.accepted = "true"
          /\ p = <<last'.dev, last'.req.target_device_id>>
          /\ HostClass(p[1])
          /\ p[2] \in Keys(devices)
          /\ ~HostClass(p[2])]_vars

\* C14: both device ids of every pairing in the PairingStore are ids of the
\* DeviceDirectory, in every state, those loaded by a restart included.
C14_PairedIdsInDirectory ==
    \A p \in paired_devices :
        p[1] \in DOMAIN device_info /\ p[2] \in DOMAIN device_info

\* C15: when the process is killed inside a persistence flush, the directory
\* and the pairing set read back at the next start are those on disk before
\* the flush, or those the flush was writing: both tables of the one or both
\* of the other.
C15_FlushAtomic ==
    [][last'.op = "flush_cut"
       => \/ /\ device_info' = LoadedDevices(devices_file)
             /\ paired_devices' = LoadedPairings(pairings_file)
          \/ /\ device_info' = ToJsonDevices(PendingInfo(last'.conn, last'.req))
             /\ paired_devices' = ToJsonPairings(PendingPairs(last'.conn, last'.req))]_vars

\* the acknowledgements of a mutation among the frames of the last step
Acks == {i \in DOMAIN sent : sent[i].msg.type \in {"registered", "paired", "unpaired"}}

\* C16: when the relay has written registered, paired or unpaired, and the
\* write to disk of that request did not fail, the two files hold the
\* directory and the pairing set as they are in memory, the mutation of the
\* request included.
C16_AckAfterFlush ==
    (Acks # {} /\ last.io = "ok")
    => /\ devices_file = ToJsonDevices(device_info)
       /\ pairings_file = ToJsonPairings(paired_devices)
       /\ last.op = "register"
             => /\ last.req.device_id \in DOMAIN devices_file
                /\ devices_file[last.req.device_id].last_seen = clock
       /\ last.op = "pair_response"
             => <<last.dev, last.req.target_device_id>> \in pairings_file
       /\ last.op = "unpair_device"
             => /\ <<last.dev, last.req.target_device_id>> \notin pairings_file
                /\ <<last.req.target_device_id, last.dev>> \notin pairings_file

C16_Witness ==
    /\ last.op = "pair_response"
    /\ last.io = "ok"
    /\ Cardinality(Acks) = 2
    /\ pairings_file = {<<HostId, "mob_1">>}
    /\ DOMAIN devices_file = DeviceIds

\* the answer the host wrote in the last step
HostAnswer == hostOut[Len(hostOut)]

\* C17: once the host has accepted an offer under its code and the pairing is
\* in the store, it rejects every later offer of a registered device that
\* carries the same code, until it has generated a code anew.
C17_CodeSingleUse ==
    [][(/\ HostGotOffer'
        /\ hostOut' # hostOut
        /\ issued.used
        /\ \E p \in Recorded : p[1] = HostId
        /\ last'.req.from_device_id \in DOMAIN device_info
        /\ last'.req.pairing_code = host_pairing_code)
       => HostAnswer'.accepted = "false"]_vars

\* C18: an offer carrying the host's code that the host compares when more
\* than the window has passed since it generated the code is rejected.
C18_CodeExpires ==
    [][(/\ HostGotOffer'
        /\ hostOut' # hostOut
        /\ host_pairing_code # None
        /\ last'.req.pairing_code = host_pairing_code
        /\ last'.req.from_device_id \in DOMAIN device_info
        /\ clock - issued.at > CodeWindow)
       => HostAnswer'.accepted = "false"]_vars

\* no device of the registry is a host
NoHostRegistered == \A i \in DOMAIN devices : ~HostClass(devices[i].id)

\* C19: a pair_request handled while no host-class device is in the registry
\* is answered with pairing_failed to its sender, and no other frame is
\* written to anyone.
C19_NoHostOfferFails ==
    (last.op = "pair_request" /\ NoHostRegistered)
    => sent = <<Frame(last.conn, [type |-> "pairing_failed",
                                  message |-> "No laptops available"])>>

C19_Witness ==
    /\ last.op = "pair_request"
    /\ last.dev = "mob_1"
    /\ Keys(devices) = {"mob_1"}
    /\ HostId \in DOMAIN device_info
    /\ Len(sent) = 1
    /\ sent[1].to = last.conn
    /\ sent[1].msg.type = "pairing_failed"

\* the characters of the codes that are offered
CodeChars ==
    [k \in Codes \cup BadCodes |->
        CASE k = "482913" -> <<"4", "8", "2", "9", "1", "3">>
          [] k = "000000" -> <<"0", "0", "0", "0", "0", "0">>
          [] k = "4829"   -> <<"4", "8", "2", "9">>
          [] k = "48291x" -> <<"4", "8", "2", "9", "1", "x">>]

\* len(code) == 6 and code.isdigit()
SixDigits(k) ==
    /\ Len(CodeChars[k]) = 6
    /\ \A i \in DOMAIN CodeChars[k] :
          CodeChars[k][i] \in {"0", "1", "2", "3", "4", "5", "6", "7", "8", "9"}

\* C20: a pair_request whose pairing_code is not exactly six digits is
\* answered with pairing_failed to its sender and is forwarded to nobody.
C20_MalformedCodeRejected ==
    (last.op = "pair_request" /\ ~SixDigits(last.req.pairing_code))
    => /\ Len(sent) = 1
       /\ sent[1].to = last.conn
       /\ sent[1].msg.type = "pairing_failed"

\* the requests that only a registered device may send
NeedsRegistration == {"pair_request", "pair_response", "unpair_device", "relay_message"}

\* C21: a pair_request, pair_response, unpair_device or relay_message handled on
\* a connection that has not registered writes no frame to any other
\* connection and leaves the PairingStore and the DeviceDirectory as they were.
C21_UnregisteredSenderIgnored ==
    [][(last'.op \in NeedsRegistration /\ connDev[last'.conn] = None)
       => /\ paired_devices' = paired_devices
          /\ device_info' = device_info
          /\ \A i \in DOMAIN sent' : sent'[i].to = last'.conn]_vars

\* the last step handled a frame that json.loads refused, or a register with
\* no device_id
MalformedHandled ==
    \/ last.op = "invalid_json"
    \/ last.op = "register" /\ last.req.device_id = Absent

\* the sender of the last request was written an error
ErrorToSender ==
    \E i \in DOMAIN sent : sent[i].to = last.conn /\ sent[i].msg.type = "error"

\* C22: a frame that does not parse, or a register without device_id, is
\* answered with an error to its sender, changes neither the registry, the
\* directory nor the pairing set, and its connection stays open.
C22_MalformedAnsweredNoChange ==
    [][MalformedHandled'
       => /\ ErrorToSender'
          /\ devices' = devices
          /\ device_info' = device_info
          /\ paired_devices' = paired_devices
          /\ connState'[last'.conn] = "open"]_vars

\* C23: the PairingStore never holds one unordered pair twice: of (A, B) and
\* (B, A) at most one is stored.
C23_NoPairInBothOrders ==
    \A p \in paired_devices : p[1] # p[2] => <<p[2], p[1]>> \notin paired_devices

\* C24: an unpair_device sent by a member of a pairing and naming the other
\* leaves the pair in the store in neither order; a pair that is not in the
\* store enters it only by an accepted pair_response; and a relay_message
\* between two devices whose pair is not in the store, in either direction, is
\* answered with relay_failed "not paired" and nothing else.
C24_UnpairBothOrders ==
    [][/\ (/\ last'.op = "unpair_device"
           /\ InStore(last'.dev, Get(last'.req.target_device_id, None)))
          => /\ <<last'.dev, last'.req.target_device_id>> \notin paired_devices'
             /\ <<last'.req.target_device_id, last'.dev>> \notin paired_devices'
       /\ \A a \in DeviceIds, b \in DeviceIds :
             (~InStore(a, b) /\ InStore(a, b)')
             => last'.op = "pair_response" /\ last'.req.accepted = "true"
       /\ (/\ RelayHandled'
           /\ <<last'.dev, RelayTarget'>> \notin paired_devices'
           /\ <<RelayTarget', last'.dev>> \notin paired_devices')
          => sent' = NotPairedFrames(last'.conn)]_vars

C24_Witness ==
    /\ last.op = "unpair_device"
    /\ last.dev = "mob_1"
    /\ last.req.target_device_id = HostId
    /\ last.to_remove = {<<HostId, "mob_1">>, <<"mob_1", HostId>>}
    /\ paired_devices = {}
    /\ pairings_file = {}
    /\ Len(sent) = 2

C26_IdentityStable ==
    [][(last'.op = "host_start" /\ device_file.state # "none")
       => /\ host_device_id' = device_file.device_id
          /\ device_file'.device_id = device_file.device_id]_vars

\* the operator has stopped the host
HostStopped == host_pc = "off"

\* the websocket of the host is gone and the loop has not yet come round
HostLostTransport ==
    /\ host_pc \in {"sleep", "listen"}
    /\ host_ws # NoConn
    /\ connState[host_ws] # "open"

\* C27: unless the operator stops the host, a failed connection attempt is
\* followed by the loop coming back to connect(), a lost transport is followed
\* by the loop coming back to connect(), and at connect() an attempt is made;
\* and the loop ends by no step other than the operator's stop.
C27_RetriesForever ==
    /\ (host_pc = "backoff") ~> (host_pc = "connect" \/ HostStopped)
    /\ HostLostTransport ~> (host_pc = "connect" \/ HostStopped)
    /\ (host_pc = "connect") ~> (host_pc \in {"sleep", "backoff"} \/ HostStopped)
    /\ [][HostStopped' => (HostStopped \/ last'.op = "host_stop")]_vars

C27_Witness ==
    /\ last.op = "accept"
    /\ last.conn = host_ws
    /\ host_pc = "sleep"
    /\ \E c \in Conns : c # host_ws /\ connState[c] = "lost" /\ connDev[c] = HostId

\* C28: a ping is answered with exactly one frame, a pong to its sender.
C28_PingAnsweredWithPong ==
    last.op = "ping"
    => /\ Len(sent) = 1
       /\ sent[1].to = last.conn
       /\ sent[1].msg.type = "pong"

\* C29: a registration of a device_id the directory knows, under a name other
\* than the recorded one, sets the record's device_name to the new name and
\* last_seen to the time of the registration, and keeps first_seen and
\* device_type.
C29_ReRegisterUpdatesName ==
    [][\A id \in DeviceIds :
          (/\ Registered(id)'
           /\ id \in DOMAIN device_info
           /\ last'.req.device_name # device_info[id].device_name)
          => /\ device_info'[id].device_name = last'.req.device_name
             /\ device_info'[id].last_seen = clock
             /\ device_info'[id].first_seen = device_info[id].first_seen
             /\ device_info'[id].device_type = device_info[id].device_type]_vars

\* the accepted pairing of host and companion is in memory and not on disk
Unpersisted ==
    /\ <<HostId, "mob_1">> \in paired_devices
    /\ <<HostId, "mob_1">> \notin LoadedPairings(pairings_file)

\* a step the relay takes with no request from a client (the finally block of
\* a handler whose connection is lost) and that writes the pairing to the file
RelayFlushesByItself ==
    \E c \in Conns, io \in IoOutcomes :
        /\ DiskHandlerEnds(c, io)
        /\ <<HostId, "mob_1">> \in LoadedPairings(pairings_file')

\* C30: whenever an accepted pairing is in the PairingStore and, its write
\* having failed, not in pairings.json, the relay has a step of its own to
\* take, with no further request, that writes the pairing to the file.
C30_FailedFlushPending ==
    Unpersisted => ENABLED RelayFlushesByItself

\* the registry entries of host-class devices, by their place in the registry
HostEntries == {i \in DOMAIN devices : HostClass(devices[i].id)}

\* the frame carries the offer of the last request and its sender's id
CarriesOffer(f) ==
    /\ f.msg.type = "pair_request"
    /\ f.msg.from_device_id = last.dev
    /\ f.msg.pairing_code = last.req.pairing_code
    /\ f.msg.device_name = last.req.device_name

C32_HostAnswersOffer ==
    [][(HostGotOffer' /\ connState[host_ws] = "open")
       => /\ Len(hostOut') = Len(hostOut) + 1
          /\ \A i \in DOMAIN hostOut : hostOut'[i] = hostOut[i]
          /\ HostAnswer'.type = "pair_response"
          /\ HostAnswer'.target_device_id = last'.req.from_device_id
          /\ HostAnswer'.accepted \in {"true", "false"}
          /\ HostAnswer'.accepted = "true"
                <=> (/\ host_pairing_code # None
                     /\ last'.req.pairing_code = host_pairing_code)]_vars

C32_Witness ==
    /\ HostGotOffer
    /\ last.code \in HostCodes
    /\ last.req.pairing_code = last.code
    /\ hostOut # <<>>
    /\ HostAnswer.type = "pair_response"
    /\ HostAnswer.target_device_id = "mob_1"
    /\ HostAnswer.accepted = "true"

\* the relay has handled the register of this connection and no
\* existing_pairings frame came back
NoPairingsReported ==
    /\ hostOut = <<>>
    /\ connState[host_ws] = "open"
    /\ \A i \in DOMAIN hostInbox : hostInbox[i].type # "existing_pairings"
    /\ \A p \in paired_devices : host_device_id \notin {p[1], p[2]}

\* C33: when the host wakes on a connection on which the relay has reported
\* no existing pairings, it generates a pairing code.
C33_FreshCodeWhenNoPairings ==
    [][(last'.op = "host_wakes" /\ NoPairingsReported) => last'.generated]_vars

\* connection c holds the session of the device it registered
HoldsSession(c) ==
    /\ Truthy(connDev[c])
    /\ connDev[c] \in Keys(devices)
    /\ DictGet(devices, connDev[c]) = c

\* C34: the cleanup of the connection that holds the session of X removes X
\* from the registry and keeps X's directory entry, with last_seen set to the
\* time of the cleanup and nothing else changed; and a relay_message to a
\* paired X that is not in the registry is answered with relay_failed
\* (offline) to its sender.
C34_CloseDeregisters ==
    [][/\ \A c \in Conns :
            (last'.op = "cleanup" /\ last'.conn = c /\ HoldsSession(c))
            => /\ connDev[c] \notin Keys(devices')
               /\ connDev[c] \in DOMAIN device_info
               /\ device_info' = [device_info EXCEPT ![connDev[c]].last_seen = clock]
       /\ (/\ RelayHandled'
           /\ <<last'.dev, RelayTarget'>> \in paired_devices
                 \/ <<RelayTarget', last'.dev>> \in paired_devices
           /\ RelayTarget' \notin Keys(devices))
          => sent' = <<Frame(last'.conn, [type |-> "relay_failed",
                                          message |-> "Target device is offline"])>>]_vars

C34_Witness ==
    /\ RelayHandled
    /\ RelayTarget \in DOMAIN device_info
    /\ InStore(last.dev, RelayTarget)
    /\ RelayTarget \notin Keys(devices)
    /\ device_info[RelayTarget].first_seen < device_info[RelayTarget].last_seen
    /\ Len(sent) = 1
    /\ sent[1].msg.message = "Target device is offline"

\* the partners of a device in the PairingStore
Partners(id) == {PeerOf(p, id) : p \in PairsOf(id, paired_devices)}

\* the existing_pairings frames of the last step
ReportFrames == SelectSeq(sent, LAMBDA f : f.msg.type = "existing_pairings")

\* C35: while every stored pairing is between two devices of the directory,
\* the registration of X writes an existing_pairings frame exactly when X has
\* a partner in the PairingStore, and the frame lists every partner of X once
\* and nobody else.
C35_ReportListsEachPartnerOnce ==
    \A id \in DeviceIds :
        (/\ Registered(id)
         /\ \A p \in paired_devices : p[1] \in DOMAIN device_info /\ p[2] \in DOMAIN device_info)
        => /\ ReportFrames # <<>> <=> Partners(id) # {}
           /\ \A i \in DOMAIN ReportFrames :
                 LET listed == ReportFrames[i].msg.pairings
                 IN  /\ {e.peer_device_id : e \in DOMAIN listed} = Partners(id)
                     /\ \A e \in DOMAIN listed : listed[e] = 1

\* C36: the cleanup of a connection c1 that registered X, when the registry
\* maps X to a newer connection c2 that registered X, leaves the registry as
\* it is.
C36_SupersededCloseKeepsEntry ==
    [][\A c1, c2 \in Conns :
          (/\ last'.op = "cleanup" /\ last'.conn = c1
           /\ c1 # c2
           /\ Truthy(connDev[c1])
           /\ connDev[c2] = connDev[c1]
           /\ connState[c2] = "open"
           /\ connDev[c1] \in Keys(devices)
           /\ DictGet(devices, connDev[c1]) = c2)
          => devices' = devices]_vars

\* C37: no entry of the ConnectionRegistry refers to a connection that has
\* closed and whose cleanup has run.
C37_NoEntryOfClosedConnection ==
    \A c \in Conns : connState[c] = "closed" => c \notin Referenced(devices)

\* C38: an unpair_device from a registered sender S naming T leaves every
\* stored pairing of two devices of the directory that involves a device
\* other than S and T as it is.
C38_UnpairFrame ==
    [][(last'.op = "unpair_device" /\ last'.dev \in DeviceIds)
       => \A p \in paired_devices \cap ((DOMAIN device_info) \X (DOMAIN device_info)) :
             (\E x \in {p[1], p[2]} :
                 x \notin {last'.dev, Get(last'.req.target_device_id, None)})
             => p \in paired_devices']_vars

\* C40: the two ids of every stored pairing differ, and no pair_request frame
\* is written to the connection that sent the request.
C40_NoSelfPairing ==
    /\ \A p \in paired_devices : p[1] # p[2]
    /\ last.op = "pair_request"
       => \A i \in DOMAIN sent :
             sent[i].msg.type = "pair_request" => sent[i].to # last.conn

\* C39: a pair_request from a registered companion whose connection is open
\* ends with the offer written to a host-class device or with pairing_failed
\* written to the companion, whatever registered or disconnected meanwhile.
C39_ScanNeverAborted ==
    (/\ last.op = "pair_request"
     /\ last.dev \in DOMAIN device_info
     /\ ~HostClass(last.dev)
     /\ connState[last.conn] = "open")
    => /\ Len(sent) = 1
       /\ \/ sent[1].msg.type = "pair_request"
          \/ sent[1].msg.type = "pairing_failed" /\ sent[1].to = last.conn

====
